---- MODULE Spec2Model ----
(***************************************************************************)
(* Forward-additive (Lucas-Kanade) image alignment:                        *)
(* AlignForwardAdditive<W>::prepareImpl / alignImpl / applyStep of         *)
(* image-align/inc/imagealign/forward_additive.h, driven by the            *)
(* prepare/step lifecycle of AlignBase.                                    *)
(*                                                                         *)
(* Numbers.  ScalarType is modelled as fixed point with SubPix steps per   *)
(* sample: a coordinate or a warp parameter v is held as the integer       *)
(* SubPix*v.  Sums and products are exact; the only rounding is the        *)
(* division of the solve (round to nearest step).  To stay in integers     *)
(* the derived quantities carry a fixed scale:                             *)
(*     sampled intensity, err      scale SubPix^2                          *)
(*     gradient, sd                scale 2*SubPix^2  (the 1/2 of the       *)
(*                                 central difference is in the scale)     *)
(*     sumErrors                   scale SubPix^4                          *)
(*     b                           scale 2*SubPix^4                        *)
(*     hessian                     scale 4*SubPix^4                        *)
(* so that H^-1 * b = 2 * Hs^-1 * bs in samples.                           *)
(***************************************************************************)
EXTENDS Integers, Sequences, FiniteSets, TLC

VARIABLES tpl, target, warpType, params,
          pc, scanIdx, acc, step, outcome,
          paramsAtBegin, scanned, evals, warpWrites, log,
          partials, unvisited

vars == <<tpl, target, warpType, params, pc, scanIdx, acc, step, outcome,
          paramsAtBegin, scanned, evals, warpWrites, log, partials, unvisited>>

(***************************************************************************)
(* Bounds of the model.                                                    *)
(***************************************************************************)
MaxDim == 5
MaxSteps == 3
SubPix == 2

(* The margin handed to isInImage. *)
Border == 1

(***************************************************************************)
(* Small linear algebra over 2-vectors and 2x2 matrices (P = 2).           *)
(***************************************************************************)
zeroParam == <<0, 0>>

zeroHessian == <<<<0, 0>>, <<0, 0>>>>

VecAdd(u, v) == <<u[1] + v[1], u[2] + v[2]>>

VecScale(u, k) == <<u[1] * k, u[2] * k>>

MatAdd(A, B) == <<VecAdd(A[1], B[1]), VecAdd(A[2], B[2])>>

MatVec(A, v) == <<A[1][1] * v[1] + A[1][2] * v[2], A[2][1] * v[1] + A[2][2] * v[2]>>

(* sd.t() * sd for a 1x2 row sd. *)
Outer(sd) == <<<<sd[1] * sd[1], sd[1] * sd[2]>>, <<sd[2] * sd[1], sd[2] * sd[2]>>>>

(* grad (1x2) times jacobian (2x2). *)
RowMat(g, J) == <<g[1] * J[1][1] + g[2] * J[2][1], g[1] * J[1][2] + g[2] * J[2][2]>>

Det(A) == A[1][1] * A[2][2] - A[1][2] * A[2][1]

Adj(A) == <<<<A[2][2], 0 - A[1][2]>>, <<0 - A[2][1], A[1][1]>>>>

Abs(n) == IF n < 0 THEN 0 - n ELSE n

(* <<q, r>> with k*r0 = q*d + r and 0 <= r < d, for 0 <= r0 < d, by k      *)
(* additions (no intermediate exceeds 2*d).                                *)
RECURSIVE TimesMod(_, _, _, _, _)
TimesMod(q, r, r0, k, d) ==
    IF k = 0 THEN <<q, r>>
    ELSE IF r + r0 >= d THEN TimesMod(q + 1, r + r0 - d, r0, k - 1, d)
                        ELSE TimesMod(q, r + r0, r0, k - 1, d)

(* k*n/d rounded to the nearest integer (halves up), for d > 0 and k >= 0. *)
MulDivRound(n, k, d) ==
    LET q0 == n \div d
        qr == TimesMod(0, 0, n % d, k, d)
    IN  k * q0 + qr[1] + (IF 2 * qr[2] >= d THEN 1 ELSE 0)

(***************************************************************************)
(* Images: cv::Mat of float, rows x cols, read as img.at[y][x].            *)
(***************************************************************************)
Patterns == {"flat", "ramp", "cone", "tex"}

Pattern(kind, x, y) ==
    CASE kind = "flat" -> 1
      [] kind = "ramp" -> Abs(x)
      [] kind = "cone" -> Abs(x - 2) + Abs(y - 2)
      [] OTHER         -> (x * x + 3 * y + x * y) % 4

MakeImage(kind, rows, cols, dx, dy) ==
    [rows |-> rows, cols |-> cols,
     at |-> [y \in 0..(rows - 1) |-> [x \in 0..(cols - 1) |-> Pattern(kind, x - dx, y - dy)]]]

(* A read of pixel (x, y).  The scan never reads outside the grid (the     *)
(* margin test and the loop bounds keep it inside); a weight-0 neighbour   *)
(* of the bilinear kernel may lie one past the edge and reads as 0.        *)
At(img, x, y) ==
    IF x >= 0 /\ x < img.cols /\ y >= 0 /\ y < img.rows THEN img.at[y][x] ELSE 0

(***************************************************************************)
(* Warp models W (external contract: apply, numParameters, jacobian,       *)
(* updateForwardAdditive).  Two 2-parameter warps:                         *)
(*   translation  w(x, y) = (x + p1, y + p2)                               *)
(*   scalex       w(x, y) = ((1 + p1) * x + p2, y)                         *)
(* A point of the template grid is <<x, y>> in samples; a warped point is  *)
(* in fixed point (units of 1/SubPix).                                     *)
(***************************************************************************)
WarpTypes == {"translation", "scalex"}

WarpApply(wt, p, pt) ==
    IF wt = "translation"
    THEN <<SubPix * pt[1] + p[1], SubPix * pt[2] + p[2]>>
    ELSE <<SubPix * pt[1] + p[1] * pt[1] + p[2], SubPix * pt[2]>>

(* d w / d p at a point given in samples: rows are (x, y) of the output,   *)
(* columns the parameters.                                                 *)
WarpJacobian(wt, p, pt) ==
    IF wt = "translation"
    THEN <<<<1, 0>>, <<0, 1>>>>
    ELSE <<<<pt[1], 1>>, <<0, 0>>>>

UpdateForwardAdditive(p, delta) == VecAdd(p, delta)

(***************************************************************************)
(* AlignBase::isInImage(p, size, border), Sampler<SAMPLE_BILINEAR> and     *)
(* gradient<float, SAMPLE_BILINEAR>.                                       *)
(***************************************************************************)
IsInImage(q, img, border) ==
    /\ q[1] >= border * SubPix
    /\ q[1] <= (img.cols - 1 - border) * SubPix
    /\ q[2] >= border * SubPix
    /\ q[2] <= (img.rows - 1 - border) * SubPix

(* Bilinear sample at a fixed-point location, scale SubPix^2. *)
Sample(img, q) ==
    LET ix == q[1] \div SubPix
        iy == q[2] \div SubPix
        ax == q[1] % SubPix
        ay == q[2] % SubPix
    IN    (SubPix - ax) * (SubPix - ay) * At(img, ix, iy)
        + ax * (SubPix - ay) * At(img, ix + 1, iy)
        + (SubPix - ax) * ay * At(img, ix, iy + 1)
        + ax * ay * At(img, ix + 1, iy + 1)

(* Central difference of the sampler, scale 2*SubPix^2. *)
Gradient(img, q) ==
    << Sample(img, <<q[1] + SubPix, q[2]>>) - Sample(img, <<q[1] - SubPix, q[2]>>),
       Sample(img, <<q[1], q[2] + SubPix>>) - Sample(img, <<q[1], q[2] - SubPix>>) >>

(***************************************************************************)
(* alignImpl: the pieces of the per-pixel loop body.                       *)
(***************************************************************************)
(* Variants of the loop bounds: a scan that starts at row and column 0,   *)
(* and one that stops a column early.                                      *)
ScanRangeFromZero(img) == [x0 |-> 0, xEnd |-> img.cols - 1, y0 |-> 0, yEnd |-> img.rows - 1]

ScanRangeShort(img) == [x0 |-> 1, xEnd |-> img.cols - 2, y0 |-> 1, yEnd |-> img.rows - 1]

(* The bounds of the two for loops:                                        *)
(*   for (y = 1; y < tpl.rows - 1; ++y) for (x = 1; x < tpl.cols - 1; ++x) *)
ScanRange(img) == [x0 |-> 1, xEnd |-> img.cols - 1, y0 |-> 1, yEnd |-> img.rows - 1]

(* The pixels two nested loops over r visit, in the order they visit them  *)
(* (y outer, x inner).                                                     *)
LoopPixels(r) ==
    LET w == r.xEnd - r.x0
        h == r.yEnd - r.y0
    IN  IF w < 1 \/ h < 1 THEN <<>>
        ELSE [i \in 1..(w * h) |-> <<r.x0 + ((i - 1) % w), r.y0 + ((i - 1) \div w)>>]

InteriorPixels(img) == LoopPixels(ScanRange(img))

(* Variant: the residual signed target minus template. *)
PixelErrReversed(templateIntensity, targetIntensity) ==
    targetIntensity - SubPix * SubPix * templateIntensity

(* err = templateIntensity - targetIntensity, scale SubPix^2. *)
PixelErr(templateIntensity, targetIntensity) ==
    SubPix * SubPix * templateIntensity - targetIntensity

(* sd = grad * jacobian. *)
SDI(grad, jacobian) == RowMat(grad, jacobian)

(* Variant: b = sd.t() * err, an assignment in place of the running sum. *)
AccBAssign(b, sd, err) == VecScale(sd, err)

(* b += sd.t() * err. *)
AccB(b, sd, err) == VecAdd(b, VecScale(sd, err))

(* hessian += sd.t() * sd. *)
AccHessian(hessian, sd) == MatAdd(hessian, Outer(sd))

ZeroAcc == [hessian |-> zeroHessian, b |-> zeroParam, sumErrors |-> 0, sumConstraints |-> 0]

(* Variant: accumulators kept from the previous call. *)
BeginAccStale(old) == old

(* The accumulators are locals, constructed at the top of every call. *)
BeginAcc(old) == ZeroAcc

(* Variant: the template read with row and column swapped. *)
TemplateIntensitySwapped(tplImg, pt) == At(tplImg, pt[2], pt[1])

(* tplRow = tpl.ptr<float>(y); templateIntensity = tplRow[x]. *)
TemplateIntensity(tplImg, pt) == At(tplImg, pt[1], pt[2])

(* Variant of the loop body: the constraint is counted before the margin  *)
(* test.                                                                   *)
PixelStepCountFirst(a, wt, p, tplImg, tgtImg, pt) ==
    LET ptgt == WarpApply(wt, p, pt) IN
    IF ~IsInImage(ptgt, tgtImg, Border)
    THEN [a EXCEPT !.sumConstraints = a.sumConstraints + 1]
    ELSE LET targetIntensity == Sample(tgtImg, ptgt)
             err  == PixelErr(TemplateIntensity(tplImg, pt), targetIntensity)
             sd   == SDI(Gradient(tgtImg, ptgt), WarpJacobian(wt, p, pt))
         IN  [hessian        |-> AccHessian(a.hessian, sd),
              b              |-> AccB(a.b, sd, err),
              sumErrors      |-> a.sumErrors + err * err,
              sumConstraints |-> a.sumConstraints + 1]

(* One iteration of the loop body for template pixel pt. *)
PixelStep(a, wt, p, tplImg, tgtImg, pt) ==
    LET ptgt == WarpApply(wt, p, pt) IN
    IF ~IsInImage(ptgt, tgtImg, Border) THEN a
    ELSE LET targetIntensity == Sample(tgtImg, ptgt)
             err  == PixelErr(TemplateIntensity(tplImg, pt), targetIntensity)
             grad == Gradient(tgtImg, ptgt)
             jacobian == WarpJacobian(wt, p, pt)
             sd   == SDI(grad, jacobian)
         IN  [hessian        |-> AccHessian(a.hessian, sd),
              b              |-> AccB(a.b, sd, err),
              sumErrors      |-> a.sumErrors + err * err,
              sumConstraints |-> a.sumConstraints + 1]

(* hessian.inv(): the inverse, or the zero matrix when the matrix is        *)
(* singular (cv::Matx::inv / cv::Mat::inv).  delta = hessian.inv() * b in   *)
(* fixed point: 2 * adj(Hs) * bs / det(Hs) samples, rounded to the step.    *)
SolveDelta(hessian, b) ==
    LET d == Det(hessian)
        n == MatVec(Adj(hessian), b)
    IN  IF d = 0 THEN zeroParam
        ELSE IF d > 0
             THEN <<MulDivRound(n[1], 2 * SubPix, d), MulDivRound(n[2], 2 * SubPix, d)>>
             ELSE <<MulDivRound(0 - n[1], 2 * SubPix, 0 - d),
                    MulDivRound(0 - n[2], 2 * SubPix, 0 - d)>>

(* The whole scan as a function of its inputs: the loop over the interior  *)
(* pixels in row-major order, from zeroed accumulators.                    *)
RECURSIVE ScanFrom(_, _, _, _, _, _, _)
ScanFrom(a, wt, p, tplImg, tgtImg, pix, i) ==
    IF i > Len(pix) THEN a
    ELSE ScanFrom(PixelStep(a, wt, p, tplImg, tgtImg, pix[i]), wt, p, tplImg, tgtImg, pix, i + 1)

SeqScan(wt, p, tplImg, tgtImg) ==
    ScanFrom(ZeroAcc, wt, p, tplImg, tgtImg, InteriorPixels(tplImg), 1)

(* Variant: alignImpl already adds the delta to the warp. *)
WarpAfterAlignEager(p, delta) == VecAdd(p, delta)

(* alignImpl takes the warp by const reference: it leaves it as it is. *)
WarpAfterAlign(p, delta) == p

(***************************************************************************)
(* The state machine.  pc: "unprepared" -> "idle" (prepared / stepped),    *)
(* and within one step "scan" (the pixel loop, scanIdx the next pixel) ->  *)
(* "solved" (alignImpl has returned) -> "idle" (applyStep has run).        *)
(* paramsAtBegin, scanned, evals, warpWrites and log only record what      *)
(* happened: scanned the pixels whose loop body was entered in this step,  *)
(* evals the pixels for which the sampler, the gradient estimator and the  *)
(* warp Jacobian were called, warpWrites the number of writes of the warp, *)
(* log the warp each finished step started from and what it returned.      *)
(***************************************************************************)
Workers == {"w1", "w2"}

NoStep == [delta |-> zeroParam, sumErrors |-> 0, numConstraints |-> 0]

NoEvals == [sampler |-> {}, gradient |-> {}, jacobian |-> {}]

Dims == 2..MaxDim

Far == 2 * MaxDim * SubPix

InitialParams ==
    {<<0, 0>>, <<1, 0>>, <<0, 1>>, <<SubPix, SubPix>>, <<0 - SubPix, 0>>, <<Far, Far>>}

Shifts == {<<0, 0>>, <<1, 0>>, <<1, 1>>}

(* The targets tried with a template of pattern k: the template itself,    *)
(* the template shifted, and a textureless image.                          *)
TargetChoices(k) == {<<k, s>> : s \in Shifts} \cup {<<"flat", <<0, 0>>>>}

InitImages(dimsR, dimsC, pads) ==
    \E rows \in dimsR, cols \in dimsC, k \in Patterns :
      \E tc \in TargetChoices(k), pad \in pads :
        /\ tpl = MakeImage(k, rows, cols, 0, 0)
        /\ target = MakeImage(tc[1], rows + pad, cols + pad, tc[2][1], tc[2][2])

InitRest ==
    /\ warpType \in WarpTypes
    /\ params \in InitialParams
    /\ pc = "unprepared"
    /\ scanIdx = 1
    /\ acc = ZeroAcc
    /\ step = NoStep
    /\ outcome = "none"
    /\ paramsAtBegin = params
    /\ scanned = {}
    /\ evals = NoEvals
    /\ warpWrites = 0
    /\ log = <<>>
    /\ partials = [w \in Workers |-> ZeroAcc]
    /\ unvisited = {}

Init == InitImages(Dims, Dims, {0, 1}) /\ InitRest

(* prepare(w): prepareImpl has nothing to do. *)
Prepare ==
    /\ pc = "unprepared"
    /\ pc' = "idle"
    /\ UNCHANGED <<tpl, target, warpType, params, scanIdx, acc, step, outcome,
                   paramsAtBegin, scanned, evals, warpWrites, log, partials, unvisited>>

(* step(w) enters alignImpl: fresh accumulators, the loops start. *)
AlignBegin ==
    /\ pc = "idle"
    /\ Len(log) < MaxSteps
    /\ pc' = "scan"
    /\ scanIdx' = 1
    /\ acc' = BeginAcc(acc)
    /\ paramsAtBegin' = params
    /\ scanned' = {}
    /\ evals' = NoEvals
    /\ UNCHANGED <<tpl, target, warpType, params, step, outcome, warpWrites, log,
                   partials, unvisited>>

(* One iteration of the loop body. *)
ScanPixel ==
    /\ pc = "scan"
    /\ scanIdx <= Len(InteriorPixels(tpl))
    /\ LET pt == InteriorPixels(tpl)[scanIdx]
           inside == IsInImage(WarpApply(warpType, params, pt), target, Border)
       IN  /\ acc' = PixelStep(acc, warpType, params, tpl, target, pt)
           /\ scanned' = scanned \cup {pt}
           /\ evals' = IF inside
                       THEN [sampler  |-> evals.sampler \cup {pt},
                             gradient |-> evals.gradient \cup {pt},
                             jacobian |-> evals.jacobian \cup {pt}]
                       ELSE evals
    /\ scanIdx' = scanIdx + 1
    /\ UNCHANGED <<tpl, target, warpType, params, pc, step, outcome,
                   paramsAtBegin, warpWrites, log, partials, unvisited>>

(* The loops are over: solve, fill the SingleStepResult, return it. *)
SolveStep ==
    /\ pc = "scan"
    /\ scanIdx > Len(InteriorPixels(tpl))
    /\ step' = [delta |-> SolveDelta(acc.hessian, acc.b),
                sumErrors |-> acc.sumErrors,
                numConstraints |-> acc.sumConstraints]
    /\ outcome' = "StepResult"
    /\ params' = WarpAfterAlign(params, step'.delta)
    /\ warpWrites' = IF params' = params THEN warpWrites ELSE warpWrites + 1
    /\ pc' = "solved"
    /\ UNCHANGED <<tpl, target, warpType, scanIdx, acc,
                   paramsAtBegin, scanned, evals, log, partials, unvisited>>

(* applyStep(w, s): w.updateForwardAdditive(s.delta). *)
ApplyStep ==
    /\ pc = "solved"
    /\ params' = UpdateForwardAdditive(params, step.delta)
    /\ warpWrites' = warpWrites + 1
    /\ log' = Append(log, [params |-> paramsAtBegin, step |-> step])
    /\ pc' = "idle"
    /\ UNCHANGED <<tpl, target, warpType, scanIdx, acc, step, outcome,
                   paramsAtBegin, scanned, evals, partials, unvisited>>

Next == Prepare \/ AlignBegin \/ ScanPixel \/ SolveStep \/ ApplyStep

Spec == Init /\ [][Next]_vars

(***************************************************************************)
(* The partitioned scan: the interior pixels are handed out in any order   *)
(* to workers that each run the loop body on a private accumulator; the    *)
(* partials are added together before the solve.  One step per run.        *)
(***************************************************************************)
AccAdd(a1, a2) ==
    [hessian        |-> MatAdd(a1.hessian, a2.hessian),
     b              |-> VecAdd(a1.b, a2.b),
     sumErrors      |-> a1.sumErrors + a2.sumErrors,
     sumConstraints |-> a1.sumConstraints + a2.sumConstraints]

RECURSIVE ReducePartials(_, _)
ReducePartials(ps, W) ==
    IF W = {} THEN ZeroAcc
    ELSE LET w == CHOOSE v \in W : TRUE
         IN  AccAdd(ps[w], ReducePartials(ps, W \ {w}))

InitPar == InitImages({3}, {MaxDim + 1}, {1}) /\ InitRest

ParBegin ==
    /\ pc = "idle"
    /\ log = <<>>
    /\ pc' = "pscan"
    /\ partials' = [w \in Workers |-> BeginAcc(partials[w])]
    /\ unvisited' = {InteriorPixels(tpl)[i] : i \in 1..Len(InteriorPixels(tpl))}
    /\ paramsAtBegin' = params
    /\ UNCHANGED <<tpl, target, warpType, params, scanIdx, acc, step, outcome,
                   scanned, evals, warpWrites, log>>

ParPixel ==
    /\ pc = "pscan"
    /\ \E w \in Workers, pt \in unvisited :
         /\ partials' = [partials EXCEPT
                           ![w] = PixelStep(@, warpType, params, tpl, target, pt)]
         /\ unvisited' = unvisited \ {pt}
    /\ UNCHANGED <<tpl, target, warpType, params, pc, scanIdx, acc, step, outcome,
                   paramsAtBegin, scanned, evals, warpWrites, log>>

ParReduce ==
    /\ pc = "pscan"
    /\ unvisited = {}
    /\ acc' = ReducePartials(partials, Workers)
    /\ step' = [delta |-> SolveDelta(acc'.hessian, acc'.b),
                sumErrors |-> acc'.sumErrors,
                numConstraints |-> acc'.sumConstraints]
    /\ outcome' = "StepResult"
    /\ pc' = "solved"
    /\ UNCHANGED <<tpl, target, warpType, params, scanIdx,
                   paramsAtBegin, scanned, evals, warpWrites, log, partials, unvisited>>

NextPar == Prepare \/ ParBegin \/ ParPixel \/ ParReduce \/ ApplyStep

SpecPar == InitPar /\ [][NextPar]_vars

(***************************************************************************)
(* What the step is specified to compute, pixel by pixel, stated over the  *)
(* state of the run (the warp the step began with).                        *)
(***************************************************************************)
(* The interior of the template: every pixel but its one-pixel border. *)
Interior == (1..(tpl.cols - 2)) \X (1..(tpl.rows - 2))

InteriorCount == IF tpl.rows < 3 \/ tpl.cols < 3 THEN 0 ELSE (tpl.rows - 2) * (tpl.cols - 2)

Warped(pt) == WarpApply(warpType, paramsAtBegin, pt)

PassesMargin(pt) == IsInImage(Warped(pt), target, Border)

ValidIn(S) == {pt \in S : PassesMargin(pt)}

(* I_tpl - I_tgt. *)
Residual(pt) == SubPix * SubPix * At(tpl, pt[1], pt[2]) - Sample(target, Warped(pt))

(* grad at the warped point times J at the template point. *)
SdiAt(pt) == RowMat(Gradient(target, Warped(pt)), WarpJacobian(warpType, paramsAtBegin, pt))

RECURSIVE SumErrSq(_)
SumErrSq(S) ==
    IF S = {} THEN 0
    ELSE LET pt == CHOOSE q \in S : TRUE
         IN  Residual(pt) * Residual(pt) + SumErrSq(S \ {pt})

RECURSIVE SumB(_)
SumB(S) ==
    IF S = {} THEN zeroParam
    ELSE LET pt == CHOOSE q \in S : TRUE
         IN  VecAdd(VecScale(SdiAt(pt), Residual(pt)), SumB(S \ {pt}))

RECURSIVE SumH(_)
SumH(S) ==
    IF S = {} THEN zeroHessian
    ELSE LET pt == CHOOSE q \in S : TRUE
         IN  MatAdd(Outer(SdiAt(pt)), SumH(S \ {pt}))

InStep == pc \in {"scan", "solved"}

(***************************************************************************)
(* C1.  Border exclusion: one call of alignImpl enters its loop body only  *)
(* for template pixels with 1 <= x <= cols-2 and 1 <= y <= rows-2, only    *)
(* such pixels reach the sampler, and neither the running count nor the    *)
(* returned numConstraints exceeds (rows-2)*(cols-2); both are 0 for a     *)
(* template with fewer than 3 rows or columns.                             *)
(***************************************************************************)
C1_BorderExcluded ==
    /\ \A pt \in scanned \cup evals.sampler \cup evals.gradient \cup evals.jacobian :
          /\ 1 <= pt[1] /\ pt[1] <= tpl.cols - 2
          /\ 1 <= pt[2] /\ pt[2] <= tpl.rows - 2
    /\ acc.sumConstraints <= InteriorCount
    /\ step.numConstraints <= InteriorCount
    /\ \A i \in 1..Len(log) : log[i].step.numConstraints <= InteriorCount
    /\ (tpl.rows < 3 \/ tpl.cols < 3) => (acc.sumConstraints = 0 /\ step.numConstraints = 0)

(* A finished scan that counted every interior pixel although a border     *)
(* pixel of the template warps to a place that passes the margin test.     *)
C1_Witness ==
    /\ pc = "solved"
    /\ step.numConstraints = (tpl.rows - 2) * (tpl.cols - 2)
    /\ step.numConstraints > 0
    /\ \E y \in 0..(tpl.rows - 1) : PassesMargin(<<0, y>>)

(***************************************************************************)
(* C2.  Margin test: at every point of a scan the sampler, the gradient    *)
(* estimator and the warp Jacobian have been evaluated for exactly the     *)
(* scanned pixels that pass the 1-sample margin test, and the count, the   *)
(* sum of squared errors, b and the Hessian are the sums over exactly      *)
(* those pixels: a pixel that fails the test changes none of them, a       *)
(* pixel that passes adds one, err*err and its SDI terms.                  *)
(***************************************************************************)
C2_MarginSkip ==
    InStep =>
      LET V == ValidIn(scanned) IN
      /\ evals.sampler = V
      /\ evals.gradient = V
      /\ evals.jacobian = V
      /\ acc.sumConstraints = Cardinality(V)
      /\ acc.sumErrors = SumErrSq(V)
      /\ acc.b = SumB(V)
      /\ acc.hessian = SumH(V)

(* In the middle of a scan, after a pixel that passed with a non-zero      *)
(* residual and one that failed.                                           *)
C2_Witness ==
    /\ pc = "scan"
    /\ ValidIn(scanned) # {}
    /\ ValidIn(scanned) # scanned
    /\ acc.sumErrors > 0
    /\ acc.b # zeroParam

(* The error kinds a step is specified to fail with. *)
ErrorKinds == {"DegenerateSystem", "NoValidPixels", "InvalidInputDimensions"}

(***************************************************************************)
(* C3.  A step whose scan ends with no valid pixel fails with the          *)
(* NoValidPixels error instead of returning a StepResult.                  *)
(***************************************************************************)
C3_NoValidPixelsFails ==
    (pc = "solved" /\ acc.sumConstraints = 0) => outcome = "NoValidPixels"

(***************************************************************************)
(* C4.  A step that counted at least one valid pixel either returns a      *)
(* StepResult solved from a non-singular Hessian or fails with one of the  *)
(* error kinds; with a singular Hessian it signals DegenerateSystem.       *)
(***************************************************************************)
C4_SingularSignalsDegenerate ==
    (pc = "solved" /\ acc.sumConstraints > 0) =>
      /\ \/ outcome = "StepResult" /\ Det(acc.hessian) # 0
         \/ outcome \in ErrorKinds
      /\ Det(acc.hessian) = 0 => outcome = "DegenerateSystem"

FreshStep(p) ==
    LET a == SeqScan(warpType, p, tpl, target)
    IN  [delta |-> SolveDelta(a.hessian, a.b),
         sumErrors |-> a.sumErrors,
         numConstraints |-> a.sumConstraints]

(***************************************************************************)
(* C6.  The accumulators are zero when a scan starts, and what a step      *)
(* returns is a function of the template, the target and the warp it       *)
(* began with: it equals the scan and solve computed from scratch, and     *)
(* two steps of one run that began with equal warp parameters returned     *)
(* equal delta, sumErrors and numConstraints.                              *)
(***************************************************************************)
C6_AccumulatorsReset ==
    /\ (pc = "scan" /\ scanIdx = 1) => acc = ZeroAcc
    /\ pc = "solved" => step = FreshStep(paramsAtBegin)
    /\ pc = "idle" =>
         /\ \A i \in 1..Len(log) : log[i].step = FreshStep(log[i].params)
         /\ \A i, j \in 1..Len(log) :
               log[i].params = log[j].params => log[i].step = log[j].step

(* A third step that began with the warp of the first, after a second one  *)
(* that began elsewhere, all with non-zero sums.                           *)
C6_Witness ==
    /\ Len(log) >= 3
    /\ log[1].params = log[3].params
    /\ log[2].params # log[1].params
    /\ log[1].step.sumErrors > 0
    /\ log[2].step.sumErrors > 0
    /\ log[3].step.numConstraints > 0

(* The parameters of the identity warp (both warp models). *)
Identity == zeroParam

(***************************************************************************)
(* C7.  Identical images, identity warp: the step returns sumErrors = 0,   *)
(* delta = 0 and numConstraints = the number of interior template pixels,  *)
(* (rows-2)*(cols-2), and applyStep leaves the warp at the identity.       *)
(***************************************************************************)
C7_IdentityStep ==
    (target = tpl /\ paramsAtBegin = Identity) =>
      /\ pc = "solved" =>
           /\ step.sumErrors = 0
           /\ step.delta = zeroParam
           /\ step.numConstraints = Cardinality(Interior)
           /\ step.numConstraints = (tpl.rows - 2) * (tpl.cols - 2)
      /\ pc = "idle" => params = Identity

(* Such a step on a textured image: nine pixels, a non-singular Hessian. *)
C7_Witness ==
    /\ target = tpl
    /\ paramsAtBegin = Identity
    /\ pc = "solved"
    /\ step.numConstraints = 9
    /\ Det(acc.hessian) # 0

(* |H*delta - 2*SubPix*b| per row, delta in steps and H, b in their scales. *)
SolveResidual(H, b, delta) ==
    LET hd == MatVec(H, delta)
    IN  <<Abs(hd[1] - 2 * SubPix * b[1]), Abs(hd[2] - 2 * SubPix * b[2])>>

(***************************************************************************)
(* C10.  After the scan b is the sum over the valid interior pixels of     *)
(* sdi^T * (I_tpl - I_tgt) and H the sum of sdi^T * sdi, with sdi the      *)
(* target gradient at the warped point times the warp Jacobian at the      *)
(* template point; H is symmetric; and the returned delta solves           *)
(* H * delta = b (to within the rounding of one fixed-point step, and      *)
(* exactly when the solution is a whole number of steps).                  *)
(***************************************************************************)
C10_NormalEquations ==
    pc = "solved" =>
      LET V == ValidIn(Interior)
          H == acc.hessian
          r == SolveResidual(H, acc.b, step.delta)
      IN  /\ acc.b = SumB(V)
          /\ H = SumH(V)
          /\ H[1][2] = H[2][1]
          /\ Det(H) # 0 =>
               /\ 2 * r[1] <= Abs(H[1][1]) + Abs(H[1][2])
               /\ 2 * r[2] <= Abs(H[2][1]) + Abs(H[2][2])

(* A solved step of the scaling warp (its Jacobian depends on the pixel)   *)
(* with skipped pixels, a non-singular Hessian and a non-zero delta that   *)
(* solves the system exactly.                                              *)
C10_Witness ==
    /\ pc = "solved"
    /\ warpType = "scalex"
    /\ Det(acc.hessian) # 0
    /\ step.delta # zeroParam
    /\ step.numConstraints > 1
    /\ step.numConstraints < InteriorCount
    /\ SolveResidual(acc.hessian, acc.b, step.delta) = <<0, 0>>

(***************************************************************************)
(* C8.  Order independence: whatever the order in which the interior       *)
(* pixels are taken and however they are divided among the workers, the    *)
(* reduced Hessian, b, sumErrors and numConstraints, and the delta solved  *)
(* from them, equal those of the sequential row-major scan.                *)
(***************************************************************************)
C8_OrderIndependent ==
    pc = "solved" =>
      /\ acc = SeqScan(warpType, paramsAtBegin, tpl, target)
      /\ step = FreshStep(paramsAtBegin)

(* A reduced step to which both workers contributed valid pixels and a     *)
(* non-zero partial b each, with a non-zero delta.                          *)
C8_Witness ==
    /\ pc = "solved"
    /\ \A w \in Workers : partials[w].sumConstraints > 0
    /\ acc.b # zeroParam
    /\ partials["w1"].b # zeroParam
    /\ partials["w2"].b # zeroParam
    /\ step.delta # zeroParam

(***************************************************************************)
(* Known synthetic offset: the target is the template shifted by a whole   *)
(* number of samples s.                                                    *)
(***************************************************************************)
TargetIsShiftedBy(s) ==
    \E k \in Patterns :
      /\ tpl = MakeImage(k, tpl.rows, tpl.cols, 0, 0)
      /\ target = MakeImage(k, target.rows, target.cols, s[1], s[2])

KnownOffset(s) == <<SubPix * s[1], SubPix * s[2]>>

(***************************************************************************)
(* C9 as stated.  With the translation warp and a target that is the       *)
(* template shifted by s, the steps of a run from the zero-parameter warp  *)
(* return sumErrors that never increase from one step to the next (and     *)
(* the warp reaches the known offset).                                     *)
(***************************************************************************)
C9_ErrorNeverIncreases ==
    \A s \in Shifts :
      (/\ warpType = "translation"
       /\ TargetIsShiftedBy(s)
       /\ Len(log) >= 1
       /\ log[1].params = zeroParam) =>
         \A i \in 1..(Len(log) - 1) : log[i + 1].step.sumErrors <= log[i].step.sumErrors

(***************************************************************************)
(* C9 as amended.  With the translation warp and a target that is the      *)
(* template shifted by s, a step that begins with the warp at the known    *)
(* offset returns sumErrors = 0 and delta = 0, so the warp stays at the    *)
(* offset and sumErrors stays 0 in every later step.                       *)
(***************************************************************************)
C9_OffsetIsFixedPoint ==
    \A s \in Shifts :
      (warpType = "translation" /\ TargetIsShiftedBy(s)) =>
        /\ (pc = "solved" /\ paramsAtBegin = KnownOffset(s)) =>
             (step.sumErrors = 0 /\ step.delta = zeroParam)
        /\ \A i \in 1..Len(log) :
             log[i].params = KnownOffset(s) =>
               /\ log[i].step.sumErrors = 0
               /\ \A j \in i..Len(log) :
                    log[j].params = KnownOffset(s) /\ log[j].step.sumErrors = 0
               /\ (pc = "idle" /\ i = Len(log)) => params = KnownOffset(s)

(* A run from the zero warp whose first step had a non-zero error and      *)
(* moved the warp onto the known, non-zero offset, where the second step   *)
(* found valid pixels on a non-singular Hessian.                           *)
C9_Witness ==
    \E s \in Shifts \ {<<0, 0>>} :
      /\ warpType = "translation"
      /\ TargetIsShiftedBy(s)
      /\ Len(log) >= 2
      /\ log[1].params = zeroParam
      /\ log[1].step.sumErrors > 0
      /\ log[2].params = KnownOffset(s)
      /\ log[2].step.numConstraints > 0
      /\ pc = "solved"
      /\ paramsAtBegin = KnownOffset(s)
      /\ Det(acc.hessian) # 0

====
